---------------------------- MODULE Spec2Model ----------------------------
(***************************************************************************)
(* A model of the analysis pipeline of app.py: extract_text_from_file,     *)
(* analyze_component (LLM call, layered interpretation of the response)    *)
(* and the analysis run of main().                                         *)
(*                                                                         *)
(* Text that the code inspects (the LLM response) is a sequence of         *)
(* one-character strings, so that strip, startswith, slicing, json.loads   *)
(* and re.search are computed character by character.  Text the code only  *)
(* produces (messages, page markers) is a sequence of pieces.              *)
(***************************************************************************)
EXTENDS Integers, Sequences, FiniteSets, TLC

VARIABLES
    pc,               \* position of the script / of the call under study
    uploaded_file,    \* the uploaded document
    disk_ok,          \* whether writing the temp file succeeds (environment)
    temp_files,       \* temp files that exist on disk
    extraction,       \* outcome of extract_text_from_file
    component,        \* argument of analyze_component
    llm,              \* outcome of client.messages.create for that call
    analysis,         \* outcome of analyze_component
    st_errors,        \* st.error reports, in order
    plan,             \* which LLM outcome each component's call gets in the run
    i,                \* loop index of main's for loop
    results,          \* main's local results dictionary
    ref_results,      \* results of the reference run (same responses, one call not failing)
    probe,            \* the component whose failure the reference run removes
    session_results,  \* st.session_state.results
    shown,            \* what the dashboard was last rendered from
    metrics           \* the summary metrics of the dashboard

vars == <<pc, uploaded_file, disk_ok, temp_files, extraction, component, llm,
          analysis, st_errors, plan, i, results, ref_results, probe,
          session_results, shown, metrics>>

-----------------------------------------------------------------------------
(* Python str operations on character sequences *)

WHITESPACE == {" ", "\t", "\n", "\r"}

DIGITS == {"0", "1", "2", "3", "4", "5", "6", "7", "8", "9"}

DigitVal(c) ==
    CASE c = "0" -> 0 [] c = "1" -> 1 [] c = "2" -> 2 [] c = "3" -> 3
      [] c = "4" -> 4 [] c = "5" -> 5 [] c = "6" -> 6 [] c = "7" -> 7
      [] c = "8" -> 8 [] c = "9" -> 9

Least(S) == CHOOSE x \in S : \A y \in S : x <= y

Greatest(S) == CHOOSE x \in S : \A y \in S : x >= y

\* index of the first character that is not whitespace (Len(s) + 1 if none)
FirstNonSpace(s) == Least({k \in 1..Len(s) : s[k] \notin WHITESPACE} \cup {Len(s) + 1})

\* index of the last character that is not whitespace (0 if none)
LastNonSpace(s) == Greatest({k \in 1..Len(s) : s[k] \notin WHITESPACE} \cup {0})

strip(s) == SubSeq(s, FirstNonSpace(s), LastNonSpace(s))

startswith(s, p) == Len(s) >= Len(p) /\ SubSeq(s, 1, Len(p)) = p

endswith(s, p) == Len(s) >= Len(p) /\ SubSeq(s, Len(s) - Len(p) + 1, Len(s)) = p

\* startswith at an offset: the literal p occurs in s at position k
LiteralAt(s, k, p) == k + Len(p) - 1 <= Len(s) /\ SubSeq(s, k, k + Len(p) - 1) = p

Min(a, b) == IF a <= b THEN a ELSE b

\* s[a:-b] for a, b >= 0 (b > 0)
SliceFromTo(s, a, b) ==
    LET n == Len(s)
        lo == Min(a, n)
        hi == IF n - b < 0 THEN 0 ELSE n - b
    IN  SubSeq(s, lo + 1, hi)

\* s[:n]
Prefix(s, n) == SubSeq(s, 1, Min(n, Len(s)))

\* int(digits) for a non-empty sequence of decimal digits
RECURSIVE int(_)
int(d) == IF Len(d) = 0 THEN 0
          ELSE 10 * int(SubSeq(d, 1, Len(d) - 1)) + DigitVal(d[Len(d)])

\* end of the maximal run of characters of class cls starting at k (first index after it)
RunEnd(s, k, cls) ==
    IF k > Len(s) THEN k
    ELSE Least({j \in k..Len(s) : s[j] \notin cls} \cup {Len(s) + 1})

-----------------------------------------------------------------------------
(* Python values: [t, n, s] with t the type, n an integer, s a string *)

PyInt(n) == [t |-> "int", n |-> n, s |-> <<>>]
PyStr(s) == [t |-> "str", n |-> 0, s |-> s]
PyFloat(lexeme) == [t |-> "float", n |-> 0, s |-> lexeme]
PyNone == [t |-> "NoneType", n |-> 0, s |-> <<>>]
PyBool(b) == [t |-> "bool", n |-> IF b THEN 1 ELSE 0, s |-> <<>>]
PyNested(kind) == [t |-> kind, n |-> 0, s |-> <<>>]   \* a dict or list held as a value

KeyScore == <<"s", "c", "o", "r", "e">>
KeyFeedback == <<"f", "e", "e", "d", "b", "a", "c", "k">>

EmptyDict == [k \in {} |-> PyNone]

\* d[k] = v on a dict (a later key replaces an earlier one)
DictSet(d, k, v) == [x \in DOMAIN d \cup {k} |-> IF x = k THEN v ELSE d[x]]

ScoreFeedback(score, feedback) ==
    DictSet(DictSet(EmptyDict, KeyScore, score), KeyFeedback, feedback)

-----------------------------------------------------------------------------
(* json.loads, as the standard decoder computes it (strict mode).  A scan    *)
(* returns [ok, pos, val]: whether it succeeded, the index after what it     *)
(* consumed, and the value; ok = FALSE is json.JSONDecodeError.              *)

ScanFail == [ok |-> FALSE, pos |-> 0, val |-> PyNone]

ScanOk(pos, val) == [ok |-> TRUE, pos |-> pos, val |-> val]

\* json.decoder.BACKSLASH: the one-character escapes (the backspace character,
\* which a TLA+ string cannot hold, is written BS)
BACKSLASH == [c \in {"\"", "\\", "/", "b", "f", "n", "r", "t"} |->
                 CASE c = "\"" -> "\"" [] c = "\\" -> "\\" [] c = "/" -> "/"
                   [] c = "b" -> "BS" [] c = "f" -> "\f" [] c = "n" -> "\n"
                   [] c = "r" -> "\r" [] c = "t" -> "\t"]

\* json.decoder.py_scanstring from index k (just after the opening quote);
\* a \uXXXX escape does not occur in the modelled texts
RECURSIVE scanstring(_, _, _)
scanstring(s, k, acc) ==
    IF k > Len(s) THEN ScanFail                      \* unterminated string
    ELSE IF s[k] = "\"" THEN ScanOk(k + 1, acc)
    ELSE IF s[k] = "\\" THEN
        IF k + 1 <= Len(s) /\ s[k + 1] \in DOMAIN BACKSLASH
        THEN scanstring(s, k + 2, Append(acc, BACKSLASH[s[k + 1]]))
        ELSE ScanFail                                \* invalid \escape
    ELSE IF s[k] \in {"\n", "\r", "\t"} THEN ScanFail   \* invalid control character
    ELSE scanstring(s, k + 1, Append(acc, s[k]))

\* json.scanner.NUMBER_RE: (-?(?:0|[1-9]\d*))(\.\d+)?([eE][-+]?\d+)?
match_number(s, k) ==
    LET d0 == IF k <= Len(s) /\ s[k] = "-" THEN k + 1 ELSE k
        intEnd == IF d0 <= Len(s) /\ s[d0] = "0" THEN d0 + 1
                  ELSE IF d0 <= Len(s) /\ s[d0] \in DIGITS THEN RunEnd(s, d0, DIGITS)
                  ELSE d0
        fracEnd == IF intEnd <= Len(s) /\ s[intEnd] = "."
                      /\ RunEnd(s, intEnd + 1, DIGITS) > intEnd + 1
                   THEN RunEnd(s, intEnd + 1, DIGITS) ELSE intEnd
        e0 == IF fracEnd + 1 <= Len(s) /\ s[fracEnd + 1] \in {"+", "-"}
              THEN fracEnd + 2 ELSE fracEnd + 1
        expEnd == IF fracEnd <= Len(s) /\ s[fracEnd] \in {"e", "E"}
                     /\ RunEnd(s, e0, DIGITS) > e0
                  THEN RunEnd(s, e0, DIGITS) ELSE fracEnd
        magnitude == int(SubSeq(s, d0, intEnd - 1))
    IN  IF intEnd = d0 THEN ScanFail
        ELSE IF expEnd = intEnd
             THEN ScanOk(intEnd, PyInt(IF d0 > k THEN 0 - magnitude ELSE magnitude))
             ELSE ScanOk(expEnd, PyFloat(SubSeq(s, k, expEnd - 1)))

LitNull == <<"n", "u", "l", "l">>
LitTrue == <<"t", "r", "u", "e">>
LitFalse == <<"f", "a", "l", "s", "e">>
LitNaN == <<"N", "a", "N">>
LitInfinity == <<"I", "n", "f", "i", "n", "i", "t", "y">>

RECURSIVE scan_once(_, _)
RECURSIVE ObjectAtFirstKey(_, _)
RECURSIVE ArrayAtFirstItem(_, _)
RECURSIVE JSONObject(_, _)
RECURSIVE JSONObjectPairs(_, _, _)
RECURSIVE PairsAfterKey(_, _, _)
RECURSIVE PairsAtColon(_, _, _, _)
RECURSIVE PairsAfterValue(_, _, _, _)
RECURSIVE PairsAtDelimiter(_, _, _)
RECURSIVE PairsAtNextKey(_, _, _)
RECURSIVE JSONArray(_, _)
RECURSIVE JSONArrayItems(_, _)
RECURSIVE ItemsAfterValue(_, _)
RECURSIVE ItemsAtDelimiter(_, _)

\* a scanned string as a value
StringValue(r) == IF r.ok THEN ScanOk(r.pos, PyStr(r.val)) ELSE ScanFail

\* a scan's result with its value replaced
WithValue(r, val) == IF r.ok THEN ScanOk(r.pos, val) ELSE ScanFail

\* json.scanner.py_make_scanner._scan_once at index k
scan_once(s, k) ==
    IF k > Len(s) THEN ScanFail
    ELSE IF s[k] = "\"" THEN StringValue(scanstring(s, k + 1, <<>>))
    ELSE IF s[k] = "{" THEN WithValue(JSONObject(s, k + 1), PyNested("dict"))
    ELSE IF s[k] = "[" THEN JSONArray(s, k + 1)
    ELSE IF LiteralAt(s, k, LitNull) THEN ScanOk(k + 4, PyNone)
    ELSE IF LiteralAt(s, k, LitTrue) THEN ScanOk(k + 4, PyBool(TRUE))
    ELSE IF LiteralAt(s, k, LitFalse) THEN ScanOk(k + 5, PyBool(FALSE))
    ELSE IF LiteralAt(s, k, LitNaN) THEN ScanOk(k + 3, PyFloat(LitNaN))
    ELSE IF LiteralAt(s, k, LitInfinity) THEN ScanOk(k + 8, PyFloat(LitInfinity))
    ELSE IF LiteralAt(s, k, <<"-">> \o LitInfinity)
         THEN ScanOk(k + 9, PyFloat(<<"-">> \o LitInfinity))
    ELSE match_number(s, k)

\* json.decoder.JSONObject from index k (just after the opening brace)
JSONObject(s, k) == ObjectAtFirstKey(s, RunEnd(s, k, WHITESPACE))

ObjectAtFirstKey(s, k) ==
    IF k > Len(s) THEN ScanFail
    ELSE IF s[k] = "}" THEN ScanOk(k + 1, EmptyDict)
    ELSE IF s[k] # "\"" THEN ScanFail                            \* expecting property name
    ELSE JSONObjectPairs(s, k + 1, EmptyDict)

\* the pairs loop of JSONObject, from just after a key's opening quote: the key,
\* the colon, the value, then the closing brace or a comma and the next key
JSONObjectPairs(s, k, pairs) == PairsAfterKey(s, scanstring(s, k, <<>>), pairs)

PairsAfterKey(s, key, pairs) ==
    IF ~key.ok THEN ScanFail
    ELSE PairsAtColon(s, key.val, RunEnd(s, key.pos, WHITESPACE), pairs)

PairsAtColon(s, name, colon, pairs) ==
    IF colon > Len(s) \/ s[colon] # ":" THEN ScanFail            \* expecting ':'
    ELSE PairsAfterValue(s, name, scan_once(s, RunEnd(s, colon + 1, WHITESPACE)), pairs)

PairsAfterValue(s, name, value, pairs) ==
    IF ~value.ok THEN ScanFail                                   \* expecting value
    ELSE PairsAtDelimiter(s, RunEnd(s, value.pos, WHITESPACE),
                          DictSet(pairs, name, value.val))

PairsAtDelimiter(s, after, pairs) ==
    IF after > Len(s) THEN ScanFail
    ELSE IF s[after] = "}" THEN ScanOk(after + 1, pairs)
    ELSE IF s[after] # "," THEN ScanFail                         \* expecting ','
    ELSE PairsAtNextKey(s, RunEnd(s, after + 1, WHITESPACE), pairs)

PairsAtNextKey(s, next, pairs) ==
    IF next > Len(s) \/ s[next] # "\"" THEN ScanFail             \* expecting property name
    ELSE JSONObjectPairs(s, next + 1, pairs)

\* json.decoder.JSONArray from index k (just after the opening bracket)
JSONArray(s, k) == ArrayAtFirstItem(s, RunEnd(s, k, WHITESPACE))

ArrayAtFirstItem(s, k) ==
    IF k > Len(s) THEN ScanFail
    ELSE IF s[k] = "]" THEN ScanOk(k + 1, PyNested("list"))
    ELSE JSONArrayItems(s, k)

JSONArrayItems(s, k) == ItemsAfterValue(s, scan_once(s, k))

ItemsAfterValue(s, value) ==
    IF ~value.ok THEN ScanFail
    ELSE ItemsAtDelimiter(s, RunEnd(s, value.pos, WHITESPACE))

ItemsAtDelimiter(s, after) ==
    IF after > Len(s) THEN ScanFail
    ELSE IF s[after] = "]" THEN ScanOk(after + 1, PyNested("list"))
    ELSE IF s[after] # "," THEN ScanFail
    ELSE JSONArrayItems(s, RunEnd(s, after + 1, WHITESPACE))

\* JSONDecoder.decode: no extra data may follow the object
WholeText(s, r) ==
    IF r.ok /\ RunEnd(s, r.pos, WHITESPACE) = Len(s) + 1 THEN r ELSE ScanFail

\* JSONDecoder.raw_decode from the first character that is not whitespace
DecodeAt(s, k) ==
    IF k <= Len(s) /\ s[k] = "{" THEN WholeText(s, JSONObject(s, k + 1)) ELSE ScanFail

\* json.loads on a text that starts with an opening brace: the decoded dict,
\* or ok = FALSE for json.JSONDecodeError
loads(s) == DecodeAt(s, RunEnd(s, 1, WHITESPACE))

-----------------------------------------------------------------------------
(* The two re.search calls of analyze_component.  A match is                *)
(* [found, group]: group is group(1) of the leftmost match.                 *)

NoMatch == [found |-> FALSE, group |-> <<>>]

QuotedScore == <<"\"">> \o KeyScore \o <<"\"">>
QuotedFeedback == <<"\"">> \o KeyFeedback \o <<"\"">>

\* "score"\s*:\s*(\d+) anchored at k
ScoreAt(s, k) ==
    LET colon == RunEnd(s, k + Len(QuotedScore), WHITESPACE)
        d0 == RunEnd(s, colon + 1, WHITESPACE)
        d1 == RunEnd(s, d0, DIGITS)
    IN  IF LiteralAt(s, k, QuotedScore) /\ colon <= Len(s) /\ s[colon] = ":" /\ d1 > d0
        THEN [found |-> TRUE, group |-> SubSeq(s, d0, d1 - 1)]
        ELSE NoMatch

\* end of the maximal run of [^"] starting at k
NonQuoteRunEnd(s, k) ==
    IF k > Len(s) THEN k
    ELSE Least({j \in k..Len(s) : s[j] = "\""} \cup {Len(s) + 1})

\* "feedback"\s*:\s*"([^"]+)" anchored at k
FeedbackAt(s, k) ==
    LET colon == RunEnd(s, k + Len(QuotedFeedback), WHITESPACE)
        q0 == RunEnd(s, colon + 1, WHITESPACE)
        q1 == NonQuoteRunEnd(s, q0 + 1)
    IN  IF LiteralAt(s, k, QuotedFeedback) /\ colon <= Len(s) /\ s[colon] = ":"
           /\ q0 <= Len(s) /\ s[q0] = "\"" /\ q1 > q0 + 1 /\ q1 <= Len(s)
        THEN [found |-> TRUE, group |-> SubSeq(s, q0 + 1, q1 - 1)]
        ELSE NoMatch

\* re.search(r'"score"\s*:\s*(\d+)', response_text): the leftmost match
score_match(response_text) ==
    LET starts == {k \in 1..Len(response_text) :
                      response_text[k] = "\"" /\ ScoreAt(response_text, k).found}
    IN  IF starts = {} THEN NoMatch ELSE ScoreAt(response_text, Least(starts))

\* re.search(r'"feedback"\s*:\s*"([^"]+)"', response_text): the leftmost match
feedback_match(response_text) ==
    LET starts == {k \in 1..Len(response_text) :
                      response_text[k] = "\"" /\ FeedbackAt(response_text, k).found}
    IN  IF starts = {} THEN NoMatch ELSE FeedbackAt(response_text, Least(starts))

-----------------------------------------------------------------------------
(* analyze_component *)

\* the keys of BUSINESS_MODEL_CANVAS_PROMPTS, in their order
BUSINESS_MODEL_CANVAS_PROMPTS ==
    <<"overview", "key_partners", "key_activities", "key_resources",
      "value_proposition", "customer_relationships", "channels",
      "customer_segments", "cost_structure", "revenue_streams">>

Components == {BUSINESS_MODEL_CANVAS_PROMPTS[k] : k \in DOMAIN BUSINESS_MODEL_CANVAS_PROMPTS}

\* the backquote character, which a TLA+ string cannot hold
Backquote == "BACKQUOTE"

FenceOpen == <<Backquote, Backquote, Backquote, "j", "s", "o", "n">>
FenceClose == <<Backquote, Backquote, Backquote>>

FenceOpenLen == 7       \* json_match[7:-3]
FenceCloseLen == 3
RawPrefixLen == 200     \* response_text[:200]
DefaultScore == 50
SentinelScore == 0

\* mutant: the markdown fence is not removed
json_match_fenced(response_text) == strip(response_text)

\* lines 142-144: the stripped response, without its markdown fence if it has one
json_match(response_text) ==
    LET stripped == strip(response_text)
    IN  IF startswith(stripped, FenceOpen) /\ endswith(stripped, FenceClose)
        THEN strip(SliceFromTo(stripped, FenceOpenLen, FenceCloseLen))
        ELSE stripped

\* line 147: "if it looks like JSON"
LooksLikeJson(text) == startswith(text, <<"{">>) /\ endswith(text, <<"}">>)

\* lines 155-159: both patterns found
RegexResult(sm, fm) == ScoreFeedback(PyInt(int(sm.group)), PyStr(fm.group))

RawResponseNotice ==
    "Analysis could not be processed properly. Here's the raw response: "

Ellipsis == "..."

\* lines 161-165: the last resort fallback
LastResort(response_text) ==
    ScoreFeedback(
        PyInt(DefaultScore),
        PyStr((<<RawResponseNotice>> \o Prefix(response_text, RawPrefixLen))
              \o <<Ellipsis>>))

\* mutant: the handler of json.JSONDecodeError gives up without the regex search
DecodeErrorGivesUp(response_text) == LastResort(response_text)

\* lines 167-176: the handler of json.JSONDecodeError
DecodeErrorResult(response_text) ==
    LET sm == score_match(response_text)
        fm == feedback_match(response_text)
    IN  ScoreFeedback(
            IF sm.found THEN PyInt(int(sm.group)) ELSE PyInt(DefaultScore),
            IF fm.found THEN PyStr(fm.group)
            ELSE PyStr(<<"Failed to parse Claude's response.">>))

\* lines 150-165: the response does not look like JSON
NotJsonResult(response_text) ==
    LET sm == score_match(response_text)
        fm == feedback_match(response_text)
    IN  IF sm.found /\ fm.found THEN RegexResult(sm, fm) ELSE LastResort(response_text)

\* lines 140-176: the record made from the response text
\* lines 147-148 and 167: the decoded object, or the handler's record
ParsedOr(decoded, response_text) ==
    IF decoded.ok THEN decoded.val ELSE DecodeErrorResult(response_text)

\* lines 140-176: the record made from the stripped text and the raw response
InterpretText(text, response_text) ==
    IF LooksLikeJson(text) THEN ParsedOr(loads(text), response_text)
    ELSE NotJsonResult(response_text)

\* lines 140-176: the record made from the response text
interpret(response_text) == InterpretText(json_match(response_text), response_text)

\* mutant: the handler substitutes the default score of the parsing fallback
SentinelWithDefaultScore(c) ==
    ScoreFeedback(PyInt(DefaultScore),
                  PyStr(<<"Failed to analyze ", c, ". Please try again.">>))

\* lines 178-183: the handler of Exception
SentinelResult(c) ==
    ScoreFeedback(PyInt(SentinelScore),
                  PyStr(<<"Failed to analyze ", c, ". Please try again.">>))

Returned(value, reports) == [kind |-> "return", value |-> value, reports |-> reports]

Raised(exc, reports) == [kind |-> "raise", value |-> exc, reports |-> reports]

\* mutant: only connection errors are caught, any other exception leaves the function
OnExceptionNarrow(c, exc) ==
    IF exc = "APIConnectionError"
    THEN Returned(SentinelResult(c), << <<"Error analyzing ", c, ": ", exc>> >>)
    ELSE Raised(exc, <<>>)

\* lines 178-183: what analyze_component does with an exception of the try block
OnException(c, exc) ==
    Returned(SentinelResult(c), << <<"Error analyzing ", c, ": ", exc>> >>)

\* lines 121-183.  The outcome o of client.messages.create is either
\* [kind |-> "raise", exc] or [kind |-> "message", content], content being the
\* message's blocks; message.content[0] of an empty content is an IndexError.
analyze_component(c, o) ==
    IF o.kind = "raise" THEN OnException(c, o.exc)
    ELSE IF Len(o.content) = 0 THEN OnException(c, "IndexError")
    ELSE Returned(interpret(o.content[1]), <<>>)

-----------------------------------------------------------------------------
(* The LLM outcomes the calls are checked on *)

MaxPad == 1        \* most whitespace characters around a colon
MaxOverflow == 2   \* how far the long response exceeds RawPrefixLen

Spaces(n) == [k \in 1..n |-> " "]

Member(key, pad, value) == key \o Spaces(pad) \o <<":">> \o Spaces(pad) \o value

\* what a response writes as its score: in range, at the ends of the range,
\* out of range, negative, not an integer, not a number, with a leading zero
ScoreLexemes ==
    { <<"8", "7">>, <<"1", "0", "0">>, <<"1", "5", "0">>,
      <<"-", "5">>, <<"8", ".", "5">>, <<"\"", "h", "i", "g", "h", "\"">>,
      <<"0", "7">> }

ScoreParts == {<<>>} \cup {Member(QuotedScore, pad, v) : pad \in 0..MaxPad, v \in ScoreLexemes}

\* what a response writes as its feedback: a plain string, one with an escaped
\* quote, the empty string, a string that is never closed
FeedbackLexemes ==
    { <<"\"", "G", "o", "o", "d", " ", "t", "r", "a", "c", "t", "i", "o", "n", "\"">>, <<"\"", "a", " ", "\\", "\"", "b", "\\", "\"", " ", "c", "\"">>,
      <<"\"", "\"">>, <<"\"", "o", "p", "e", "n">> }

FeedbackParts ==
    {<<>>} \cup {Member(QuotedFeedback, pad, v) : pad \in 0..MaxPad, v \in FeedbackLexemes}

\* the score and the feedback joined as in an object, or as in prose
Bodies ==
    {sp \o sep \o fp : sp \in ScoreParts, sep \in {<<",", " ">>, <<" ">>}, fp \in FeedbackParts}

\* [before, after]: nothing, braces, braces in whitespace, a fenced object with
\* and without whitespace, prose around an object, prose, an object never closed
Wrappers ==
    { <<<<>>, <<>>>>,
      <<<<"{">>, <<"}">>>>,
      <<<<" ", "{">>, <<"}", "\n">>>>,
      <<<<"\n">> \o FenceOpen \o <<"\n", "{">>, <<"}", "\n">> \o FenceClose \o <<" ">>>>,
      <<FenceOpen \o <<"{">>, <<"}">> \o FenceClose>>,
      <<<<"S", "u", "r", "e", ":", " ", "{">>, <<"}", " ", "o", "k">>>>,
      <<<<"S", "u", "r", "e", ":", " ">>, <<" ", "o", "k">>>>,
      <<<<"{">>, <<>>>> }

LongResponse == [k \in 1..(RawPrefixLen + MaxOverflow) |-> IF k % 7 = 0 THEN " " ELSE "x"]

\* the examples of the specification, two matches of each pattern, long responses
ExampleResponses ==
    { <<"{", "\"", "s", "c", "o", "r", "e", "\"", ":", " ", "8", "7", ",", " ", "\"", "f", "e", "e", "d", "b", "a", "c", "k", "\"", ":", " ", "\"", "G", "o", "o", "d", " ", "t", "r", "a", "c", "t", "i", "o", "n", "\"", "}">>,
      <<"I", " ", "t", "h", "i", "n", "k", " ", "\"", "s", "c", "o", "r", "e", "\"", ":", " ", "4", "2", " ", "a", "n", "d", " ", "\"", "f", "e", "e", "d", "b", "a", "c", "k", "\"", ":", " ", "\"", "N", "e", "e", "d", "s", " ", "w", "o", "r", "k", "\"", " ", "o", "v", "e", "r", "a", "l", "l">>,
      <<"\"", "s", "c", "o", "r", "e", "\"", ":", " ", "1", ",", " ", "\"", "s", "c", "o", "r", "e", "\"", ":", " ", "2", ",", " ", "\"", "f", "e", "e", "d", "b", "a", "c", "k", "\"", ":", " ", "\"", "a", "\"", ",", " ", "\"", "f", "e", "e", "d", "b", "a", "c", "k", "\"", ":", " ", "\"", "b", "\"">>,
      <<"{", "\"", "s", "c", "o", "r", "e", "\"", ":", " ", "1", ",", " ", "\"", "s", "c", "o", "r", "e", "\"", ":", " ", "2", ",", " ", "\"", "f", "e", "e", "d", "b", "a", "c", "k", "\"", ":", " ", "\"", "a", "\"", "}">>,
      <<"{", "\"", "s", "c", "o", "r", "e", "\"", ":", " ", "{", "\"", "v", "a", "l", "u", "e", "\"", ":", " ", "[", "7", "0", ",", " ", "n", "u", "l", "l", "]", "}", ",", " ", "\"", "f", "e", "e", "d", "b", "a", "c", "k", "\"", ":", " ", "t", "r", "u", "e", "}">>,
      <<"[", "{", "\"", "s", "c", "o", "r", "e", "\"", ":", " ", "4", "2", ",", " ", "\"", "f", "e", "e", "d", "b", "a", "c", "k", "\"", ":", " ", "\"", "N", "e", "e", "d", "s", " ", "w", "o", "r", "k", "\"", "}", "]">>,
      LongResponse,
      <<"{">> \o LongResponse \o <<"}">>,
      <<"\"", "s", "c", "o", "r", "e", "\"", ":", " ", "4", "2", " ">> \o LongResponse }

ResponseTexts == {w[1] \o b \o w[2] : w \in Wrappers, b \in Bodies} \cup ExampleResponses

TextMessage(text) == [kind |-> "message", content |-> <<text>>]

EmptyMessage == [kind |-> "message", content |-> <<>>]

ApiError(exc) == [kind |-> "raise", exc |-> exc]

\* what client.messages.create raises
ApiErrors ==
    {"APIConnectionError", "APITimeoutError", "RateLimitError", "InternalServerError",
     "AuthenticationError"}

LlmOutcomes ==
    {TextMessage(t) : t \in ResponseTexts} \cup {EmptyMessage} \cup {ApiError(e) : e \in ApiErrors}

-----------------------------------------------------------------------------
(* extract_text_from_file *)

MaxItems == 2      \* most pages, slides or paragraphs of a document

\* os.path.splitext(uploaded_file.name)[1].lower()
lower(ext) ==
    CASE ext = ".PDF" -> ".pdf" [] ext = ".Pptx" -> ".pptx" [] OTHER -> ext

SupportedExtensions == {".pdf", ".pptx", ".docx", ".ppt"}

\* A page, slide or paragraph: with text, without text, or one the library
\* fails on (for a slide: a shape without a text attribute, which is skipped)
ItemKinds == {"text", "empty", "bad"}

ItemSeqs == UNION {[1..n -> ItemKinds] : n \in 0..MaxItems}

\* name: the extension of the file name; corrupt: the parsing library cannot
\* open the file; items: its pages, slides or paragraphs
Documents ==
    [ext : {".pdf", ".PDF", ".pptx", ".Pptx", ".docx", ".ppt", ".txt"},
     corrupt : BOOLEAN, items : ItemSeqs]

ItemText(kind) == IF kind = "text" THEN "lorem" ELSE ""

\* lines 90-93: the pages of a PDF from page k on; page.extract_text() raises on a bad page
RECURSIVE PdfPages(_, _, _)
PdfPages(items, k, text) ==
    IF k > Len(items) THEN [kind |-> "return", value |-> text]
    ELSE IF items[k] = "bad" THEN [kind |-> "raise", value |-> "PdfReadError"]
    ELSE PdfPages(items, k + 1,
                  text \o <<"\n--- Page ", ToString(k), " ---\n", ItemText(items[k])>>)

\* lines 97-101: the slides of a deck; a shape's text is added when it has one
RECURSIVE PptxSlides(_, _, _)
PptxSlides(items, k, text) ==
    IF k > Len(items) THEN [kind |-> "return", value |-> text]
    ELSE PptxSlides(items, k + 1,
                    (text \o <<"\n--- Slide ", ToString(k), " ---\n">>)
                    \o (IF items[k] = "text" THEN <<ItemText(items[k]), "\n">> ELSE <<>>))

\* lines 105-106: the paragraphs of a word document
RECURSIVE DocxParagraphs(_, _, _)
DocxParagraphs(items, k, text) ==
    IF k > Len(items) THEN [kind |-> "return", value |-> text]
    ELSE DocxParagraphs(items, k + 1, text \o <<ItemText(items[k]), "\n">>)

\* lines 86-112: the body of the try statement
ExtractBody(doc) ==
    LET file_extension == lower(doc.ext)
    IN  IF file_extension = ".pdf" THEN
            IF doc.corrupt THEN [kind |-> "raise", value |-> "PdfReadError"]
            ELSE PdfPages(doc.items, 1, <<>>)
        ELSE IF file_extension = ".pptx" THEN
            IF doc.corrupt THEN [kind |-> "raise", value |-> "PackageNotFoundError"]
            ELSE PptxSlides(doc.items, 1, <<>>)
        ELSE IF file_extension = ".docx" THEN
            IF doc.corrupt THEN [kind |-> "raise", value |-> "PackageNotFoundError"]
            ELSE DocxParagraphs(doc.items, 1, <<>>)
        ELSE IF file_extension = ".ppt" THEN
            [kind |-> "return",
             value |-> <<"PPT format has limited extraction capabilities. Consider converting to PPTX for better results.">>]
        ELSE [kind |-> "return", value |-> <<"Unsupported file format: ", file_extension>>]

TempPath == "tmp0"

\* lines 76-118: [kind, value, files]: the text returned or the exception raised,
\* and the temp files on disk afterwards.  NamedTemporaryFile(delete=False)
\* creates the file; when temp_file.write raises, the with statement closes the
\* file and the exception leaves the function before the try statement; the
\* finally clause unlinks the file on both exits of the try statement.
extract_text_from_file(doc, write_ok, files) ==
    IF ~write_ok
    THEN [kind |-> "raise", value |-> "OSError", files |-> files \cup {TempPath}]
    ELSE [kind |-> ExtractBody(doc).kind, value |-> ExtractBody(doc).value,
          files |-> (files \cup {TempPath}) \ {TempPath}]

-----------------------------------------------------------------------------
(* The state machines *)

NoDocument == [ext |-> "", corrupt |-> FALSE, items |-> <<>>]
NoOutcome == [kind |-> "none", value |-> <<>>]
NoAnalysis == [kind |-> "none", value |-> EmptyDict, reports |-> <<>>]
NoCall == [kind |-> "none"]
NoMetrics == [kind |-> "none"]

\* One call of extract_text_from_file on any document, the disk full or not

InitExtract ==
    /\ pc = "extract"
    /\ uploaded_file \in Documents
    /\ disk_ok \in BOOLEAN
    /\ temp_files = {}
    /\ extraction = NoOutcome
    /\ component = "" /\ llm = NoCall /\ analysis = NoAnalysis
    /\ st_errors = <<>> /\ plan = <<>> /\ i = 0
    /\ results = EmptyDict /\ ref_results = EmptyDict /\ probe = ""
    /\ session_results = EmptyDict /\ shown = EmptyDict /\ metrics = NoMetrics

ExtractTextFromFile ==
    /\ pc = "extract"
    /\ LET r == extract_text_from_file(uploaded_file, disk_ok, temp_files)
       IN  /\ extraction' = [kind |-> r.kind, value |-> r.value]
           /\ temp_files' = r.files
    /\ pc' = "extracted"
    /\ UNCHANGED <<uploaded_file, disk_ok, component, llm, analysis, st_errors, plan,
                   i, results, ref_results, probe, session_results, shown,
                   metrics>>

NextExtract == ExtractTextFromFile

SpecExtract == InitExtract /\ [][NextExtract]_vars

\* One call of analyze_component for any component and any outcome of the LLM call

InitAnalyze ==
    /\ pc = "call"
    /\ component \in Components
    /\ llm \in LlmOutcomes
    /\ analysis = NoAnalysis
    /\ st_errors = <<>>
    /\ uploaded_file = NoDocument /\ disk_ok = TRUE /\ temp_files = {}
    /\ extraction = NoOutcome /\ plan = <<>> /\ i = 0
    /\ results = EmptyDict /\ ref_results = EmptyDict /\ probe = ""
    /\ session_results = EmptyDict /\ shown = EmptyDict /\ metrics = NoMetrics

AnalyzeComponent ==
    /\ pc = "call"
    /\ analysis' = analyze_component(component, llm)
    /\ st_errors' = st_errors \o analysis'.reports
    /\ pc' = "called"
    /\ UNCHANGED <<uploaded_file, disk_ok, temp_files, extraction, component, llm, plan,
                   i, results, ref_results, probe, session_results, shown,
                   metrics>>

NextAnalyze == AnalyzeComponent

SpecAnalyze == InitAnalyze /\ [][NextAnalyze]_vars

\* The analysis run of main(): "Analyze Pitch Deck" pressed on an uploaded file

\* the documents of the runs: a readable PDF and a corrupt one
RunDocuments ==
    { [ext |-> ".pdf", corrupt |-> FALSE, items |-> <<"text", "empty">>],
      [ext |-> ".pdf", corrupt |-> TRUE, items |-> <<>>] }

\* the responses of the runs: an object, a fenced object, prose
RunResponses ==
    << <<"{", "\"", "s", "c", "o", "r", "e", "\"", ":", " ", "8", "7", ",", " ", "\"", "f", "e", "e", "d", "b", "a", "c", "k", "\"", ":", " ", "\"", "G", "o", "o", "d", " ", "t", "r", "a", "c", "t", "i", "o", "n", "\"", "}">>,
       FenceOpen \o <<"\n", "{", "\"", "s", "c", "o", "r", "e", "\"", ":", " ", "7", "2", ",", " ", "\"", "f", "e", "e", "d", "b", "a", "c", "k", "\"", ":", " ", "\"", "o", "k", "\"", "}", "\n">> \o FenceClose,
       <<"I", "t", " ", "i", "s", " ", "f", "i", "n", "e", ".">> >>

\* which response each component's call gets when it does not fail
IndexOf(c) ==
    CHOOSE k \in DOMAIN BUSINESS_MODEL_CANVAS_PROMPTS : BUSINESS_MODEL_CANVAS_PROMPTS[k] = c

Plans ==
    { [c \in Components |->
          TextMessage(RunResponses[((IndexOf(c) + shift) % Len(RunResponses)) + 1])]
      : shift \in 0..(Len(RunResponses) - 1) }

RunErrors == {"APITimeoutError"}

\* mutant: the loop stops one component early
LoopDoneEarly(k) == k = Len(BUSINESS_MODEL_CANVAS_PROMPTS) - 1

\* line 225: the loop has gone through every key of BUSINESS_MODEL_CANVAS_PROMPTS
LoopDone(k) == k = Len(BUSINESS_MODEL_CANVAS_PROMPTS)

\* line 231: results[component] = ...
StoreResult(d, c, value) == [x \in DOMAIN d \cup {c} |-> IF x = c THEN value ELSE d[x]]

Init ==
    /\ pc = "extract"
    /\ uploaded_file \in RunDocuments
    /\ disk_ok \in BOOLEAN
    /\ temp_files = {}
    /\ extraction = NoOutcome
    /\ component = "" /\ llm = NoCall /\ analysis = NoAnalysis
    /\ st_errors = <<>>
    /\ plan \in Plans
    /\ probe \in Components
    /\ i = 0
    /\ results = EmptyDict /\ ref_results = EmptyDict
    /\ session_results = EmptyDict /\ shown = EmptyDict /\ metrics = NoMetrics

\* lines 204-222: extraction; an exception of it ends the script run
MainExtract ==
    /\ pc = "extract"
    /\ LET r == extract_text_from_file(uploaded_file, disk_ok, temp_files)
       IN  /\ extraction' = [kind |-> r.kind, value |-> r.value]
           /\ temp_files' = r.files
           /\ pc' = IF r.kind = "raise" THEN "aborted" ELSE "analyze"
    /\ i' = 0
    /\ results' = EmptyDict
    /\ UNCHANGED <<uploaded_file, disk_ok, component, llm, analysis, st_errors, plan,
                   ref_results, probe, session_results, shown,
                   metrics>>

\* lines 225-234: one iteration of the loop.  The call gets its planned response
\* or fails; the reference run gets the same, except that the call for the
\* probe component does not fail there.
MainAnalyze ==
    /\ pc = "analyze"
    /\ ~LoopDone(i)
    /\ LET c == BUSINESS_MODEL_CANVAS_PROMPTS[i + 1]
       IN  \E o \in {plan[c]} \cup {ApiError(e) : e \in RunErrors} :
             LET r == analyze_component(c, o)
                 ref == analyze_component(c, IF c = probe THEN plan[c] ELSE o)
             IN  /\ st_errors' = st_errors \o r.reports
                 /\ IF r.kind = "return"
                    THEN /\ results' = StoreResult(results, c, r.value)
                         /\ i' = i + 1
                         /\ pc' = pc
                    ELSE /\ pc' = "aborted"
                         /\ UNCHANGED <<i, results>>
                 /\ ref_results' = IF ref.kind = "return"
                                   THEN StoreResult(ref_results, c, ref.value)
                                   ELSE ref_results
    /\ UNCHANGED <<uploaded_file, disk_ok, temp_files, extraction, component, llm,
                   analysis, plan, probe, session_results, shown,
                   metrics>>

\* lines 236-244: the results go to the session state and the script reruns
MainStore ==
    /\ pc = "analyze"
    /\ LoopDone(i)
    /\ session_results' = results
    /\ pc' = "rerun"
    /\ UNCHANGED <<uploaded_file, disk_ok, temp_files, extraction, component, llm,
                   analysis, st_errors, plan, i, results, ref_results, probe, shown,
                   metrics>>

\* results.values(): the entries in insertion order, which is the order of the
\* loop over BUSINESS_MODEL_CANVAS_PROMPTS
values(d) ==
    LET keys == SelectSeq(BUSINESS_MODEL_CANVAS_PROMPTS, LAMBDA c : c \in DOMAIN d)
    IN  [k \in 1..Len(keys) |-> d[keys[k]]]

\* component["score"] of each entry
Scores(d) == LET vs == values(d) IN [k \in 1..Len(vs) |-> vs[k][KeyScore].n]

\* the builtin sum over a sequence of integers
RECURSIVE sum(_)
sum(ns) == IF Len(ns) = 0 THEN 0 ELSE Head(ns) + sum(Tail(ns))

\* mutant: a score of exactly 80 is not a strength
IsStrengthAbove(score) == score > 80

\* line 265: component["score"] >= 80
IsStrength(score) == score >= 80

\* line 269: component["score"] < 70
IsWeakness(score) == score < 70

\* line 257: the true division sum / len, kept as the exact fraction
avg_score(d) == [num |-> sum(Scores(d)), den |-> Cardinality(DOMAIN d)]

\* line 265: sum(1 for ... if component["score"] >= 80)
strengths(d) == Len(SelectSeq(Scores(d), IsStrength))

\* line 269: sum(1 for ... if component["score"] < 70)
weaknesses(d) == Len(SelectSeq(Scores(d), IsWeakness))

\* lines 256-270: the three metrics of the overview tab
Summary(d) ==
    [avg_score |-> avg_score(d), strengths |-> strengths(d), weaknesses |-> weaknesses(d)]

\* lines 247-270: the next script run renders the stored results, if any, and
\* computes the summary metrics from them
MainDisplay ==
    /\ pc \in {"rerun", "aborted"}
    /\ shown' = IF session_results # EmptyDict THEN session_results ELSE shown
    /\ metrics' = IF session_results # EmptyDict THEN Summary(session_results) ELSE metrics
    /\ pc' = "idle"
    /\ UNCHANGED <<uploaded_file, disk_ok, temp_files, extraction, component, llm,
                   analysis, st_errors, plan, i, results, ref_results, probe,
                   session_results>>

Next == MainExtract \/ MainAnalyze \/ MainStore \/ MainDisplay

Spec == Init /\ [][Next]_vars

\* The dashboard rendered from a stored report of ten integer scores

MaxVaried == 2

\* the scores at and around the thresholds of lines 265 and 269, and the ends of the scale
BoundaryScores == {0, 69, 70, 79, 80, 100}

\* a report with scores on every side of the thresholds
ExampleScores == <<95, 85, 72, 65, 50, 90, 60, 78, 82, 55>>

\* the stored report with the given score for each component, in loop order
ReportOf(scores) ==
    [c \in Components |-> ScoreFeedback(PyInt(scores[IndexOf(c)]), PyStr(<<"o", "k">>))]

\* the example with up to MaxVaried scores replaced by boundary scores, and
\* the reports whose ten scores are the same boundary score
ReportScores ==
    { [k \in DOMAIN ExampleScores |-> IF k \in ks THEN f[k] ELSE ExampleScores[k]] :
        <<ks, f>> \in UNION { {ks} \X [ks -> BoundaryScores] :
                    ks \in {x \in SUBSET DOMAIN ExampleScores : Cardinality(x) <= MaxVaried} } }
    \cup { [k \in DOMAIN ExampleScores |-> v] : v \in BoundaryScores }

Reports == { ReportOf(scores) : scores \in ReportScores }

InitSummary ==
    /\ pc = "rerun"
    /\ session_results \in Reports
    /\ uploaded_file = NoDocument /\ disk_ok = TRUE /\ temp_files = {}
    /\ extraction = NoOutcome
    /\ component = "" /\ llm = NoCall /\ analysis = NoAnalysis
    /\ st_errors = <<>> /\ plan = <<>> /\ i = 0
    /\ results = EmptyDict /\ ref_results = EmptyDict /\ probe = ""
    /\ shown = EmptyDict /\ metrics = NoMetrics

NextSummary == MainDisplay

SpecSummary == InitSummary /\ [][NextSummary]_vars

\* The analysis run with each LLM call in flight between its request and its
\* outcome: the call returns a message, raises, or stalls (neither of the two,
\* ever).  The client is built and called without a timeout (lines 21 and
\* 126-135) and main() waits for analyze_component (line 231).

Stalled == [kind |-> "stalled"]

\* what the call of a run can do: its planned response, an error, or nothing
CallFates(c) == {plan[c]} \cup {ApiError(e) : e \in RunErrors} \cup {Stalled}

InitLive ==
    /\ pc = "extract"
    /\ uploaded_file \in RunDocuments
    /\ disk_ok \in BOOLEAN
    /\ temp_files = {}
    /\ extraction = NoOutcome
    /\ component = "" /\ llm = NoCall /\ analysis = NoAnalysis
    /\ st_errors = <<>>
    /\ plan \in Plans
    /\ probe = ""
    /\ i = 0
    /\ results = EmptyDict /\ ref_results = EmptyDict
    /\ session_results = EmptyDict /\ shown = EmptyDict /\ metrics = NoMetrics

\* lines 225-231 and 121-135: the loop enters analyze_component for the next
\* component, which sends the request and waits for client.messages.create
MainCall ==
    /\ pc = "analyze"
    /\ ~LoopDone(i)
    /\ component' = BUSINESS_MODEL_CANVAS_PROMPTS[i + 1]
    /\ llm' \in CallFates(component')
    /\ pc' = "calling"
    /\ UNCHANGED <<uploaded_file, disk_ok, temp_files, extraction, analysis, st_errors,
                   plan, i, results, ref_results, probe, session_results, shown,
                   metrics>>

\* lines 137-183 and 231-234: client.messages.create returned or raised;
\* analyze_component produces its result and the loop stores it.  Nothing in
\* the program acts on a call that does neither.
MainResolve ==
    /\ pc = "calling"
    /\ llm # Stalled
    /\ LET r == analyze_component(component, llm)
       IN  /\ st_errors' = st_errors \o r.reports
           /\ IF r.kind = "return"
              THEN /\ results' = StoreResult(results, component, r.value)
                   /\ i' = i + 1
                   /\ pc' = "analyze"
              ELSE /\ pc' = "aborted"
                   /\ UNCHANGED <<i, results>>
    /\ UNCHANGED <<uploaded_file, disk_ok, temp_files, extraction, component, llm,
                   analysis, plan, ref_results, probe, session_results, shown,
                   metrics>>

NextLive == MainExtract \/ MainCall \/ MainResolve \/ MainStore \/ MainDisplay

\* the steps of MainResolve: the call in flight is one that returns or raises,
\* and the program leaves the wait
CallResolves == pc = "calling" /\ llm # Stalled /\ pc' \in {"analyze", "aborted"}

\* the script runs its statements one after the other, so a step that can be
\* taken is taken; a call that returns or raises does so eventually
SpecLive ==
    /\ InitLive /\ [][NextLive]_vars
    /\ WF_vars(MainExtract) /\ WF_vars(MainCall) /\ WF_pc(CallResolves)
    /\ WF_vars(MainStore) /\ WF_vars(MainDisplay)

-----------------------------------------------------------------------------
(* Properties *)

\* the call under study returned a text response
GotText == pc = "called" /\ llm.kind = "message" /\ Len(llm.content) > 0

\* the direct parse does not succeed on the response
Unparseable(t) == ~(LooksLikeJson(json_match(t)) /\ loads(json_match(t)).ok)

\* needle occurs in hay as a contiguous run
Contains(hay, needle) ==
    \E k \in 0..(Len(hay) - Len(needle)) : SubSeq(hay, k + 1, k + Len(needle)) = needle

\* the components for which st.error was called
Reported == {st_errors[k][2] : k \in DOMAIN st_errors}

\* the sentinel record of the specification for component c
ZeroScoreSentinel(c) ==
    ScoreFeedback(PyInt(0), PyStr(<<"Failed to analyze ", c, ". Please try again.">>))

\* C1: whatever the LLM call gives, for every component, the record that
\* analyze_component returns has a score, and the score is an integer in 0..100.
C1_ScoreAlwaysInRange ==
    pc = "called" =>
        /\ analysis.kind = "return"
        /\ KeyScore \in DOMAIN analysis.value
        /\ analysis.value[KeyScore].t = "int"
        /\ analysis.value[KeyScore].n \in 0..100

\* C2: when the LLM call raises, analyze_component does not raise: it reports the
\* error once, naming the component, and returns the zero-score sentinel.
C2_FailureBecomesSentinel ==
    (pc = "called" /\ llm.kind = "raise") =>
        /\ analysis.kind = "return"
        /\ analysis.value = ZeroScoreSentinel(component)
        /\ Len(st_errors) = 1
        /\ st_errors[1][2] = component

C2_Witness ==
    /\ pc = "called" /\ llm.kind = "raise" /\ llm.exc = "RateLimitError"
    /\ component = "channels"
    /\ analysis.kind = "return"

\* C3: in the run, a failed call does not end the loop, every component so far
\* has its entry, the entry of every component other than the probe is the
\* entry of the reference run (same responses, the probe's call not failing),
\* the entry of a component whose call failed is the sentinel, and a step of
\* the run leaves the entries already written as they are.
C3_FailureIsolated ==
    /\ [](/\ pc = "aborted" => extraction.kind = "raise"
          /\ pc \in {"analyze", "rerun"} =>
                /\ DOMAIN results = {BUSINESS_MODEL_CANVAS_PROMPTS[k] : k \in 1..i}
                /\ \A c \in DOMAIN results :
                      /\ c # probe => results[c] = ref_results[c]
                      /\ c \in Reported => results[c] = ZeroScoreSentinel(c))
    /\ [][pc = "analyze" =>
             \A c \in DOMAIN results : c \in DOMAIN results' /\ results'[c] = results[c]]_vars

\* the call of the fifth component alone failed, and the run is complete
C3_Witness ==
    /\ pc = "rerun"
    /\ probe = "value_proposition"
    /\ Reported = {probe}
    /\ results[probe] = ZeroScoreSentinel(probe)
    /\ ref_results[probe] # results[probe]
    /\ Cardinality(DOMAIN results) = 10

\* C4: the report in st.session_state.results, and the report the dashboard is
\* rendered from, has exactly one entry for each of the ten components, whatever
\* calls failed; once the loop is over the report is stored.
C4_ReportComplete ==
    /\ session_results # EmptyDict =>
          DOMAIN session_results = Components /\ Cardinality(DOMAIN session_results) = 10
    /\ shown # EmptyDict =>
          DOMAIN shown = Components /\ Cardinality(DOMAIN shown) = 10
    /\ pc = "rerun" => session_results # EmptyDict

\* a report with failed and answered calls was stored and shown
C4_Witness ==
    /\ pc = "idle"
    /\ shown # EmptyDict
    /\ Cardinality(Reported) = 3
    /\ shown["overview"] = ZeroScoreSentinel("overview")
    /\ shown["revenue_streams"] # ZeroScoreSentinel("revenue_streams")

\* C5: for a file with a supported extension, whose bytes were written to the temp
\* file, extract_text_from_file returns a string and does not raise.
C5_ExtractionNeverRaises ==
    (pc = "extracted" /\ disk_ok /\ lower(uploaded_file.ext) \in SupportedExtensions) =>
        extraction.kind = "return"

\* C6: once extract_text_from_file has completed, by a return or an exception,
\* the temp file it created does not exist.
C6_TempFileRemoved == pc = "extracted" => temp_files = {}

\* C7: a response that cannot be parsed and matches neither pattern gives score 50
\* and a feedback that contains the first RawPrefixLen characters of the response.
C7_NothingRecovered ==
    GotText =>
        LET t == llm.content[1]
        IN  (Unparseable(t) /\ ~score_match(t).found /\ ~feedback_match(t).found) =>
                /\ analysis.value[KeyScore] = PyInt(50)
                /\ Contains(analysis.value[KeyFeedback].s, Prefix(t, 200))

\* C8: a response that cannot be parsed and matches the score pattern only keeps
\* the matched integer as its score, with a feedback that contains the first
\* RawPrefixLen characters of the response; one that matches the feedback
\* pattern only gets score 50.
C8_PartialRecovery ==
    GotText =>
        LET t == llm.content[1]
        IN  /\ (Unparseable(t) /\ score_match(t).found /\ ~feedback_match(t).found) =>
                  /\ analysis.value[KeyScore] = PyInt(int(score_match(t).group))
                  /\ Contains(analysis.value[KeyFeedback].s, Prefix(t, 200))
            /\ (Unparseable(t) /\ ~score_match(t).found /\ feedback_match(t).found) =>
                  analysis.value[KeyScore] = PyInt(50)

\* well-formed objects, each with the score and the feedback it states
WellFormedScores ==
    { <<<<"8", "7">>, 87>>, <<<<"1", "0", "0">>, 100>>,
      <<<<"1", "5", "0">>, 150>>, <<<<"-", "5">>, 0 - 5>> }

WellFormedFeedbacks ==
    { <<<<"\"", "G", "o", "o", "d", " ", "t", "r", "a", "c", "t", "i", "o", "n", "\"">>, <<"G", "o", "o", "d", " ", "t", "r", "a", "c", "t", "i", "o", "n">>>>,
      <<<<"\"", "a", " ", "\\", "\"", "b", "\\", "\"", " ", "c", "\"">>, <<"a", " ", "\"", "b", "\"", " ", "c">>>>,
      <<<<"\"", "\"">>, <<>>>> }

WellFormedObjects ==
    { [text |-> <<"{">> \o Member(QuotedScore, pad, sc[1]) \o <<",", " ">>
                  \o Member(QuotedFeedback, pad, fb[1]) \o <<"}">>,
       score |-> sc[2], feedback |-> fb[2]]
      : pad \in 0..MaxPad, sc \in WellFormedScores, fb \in WellFormedFeedbacks }

\* an object in a json fence, without and with whitespace around the fence markers
Fenced(object) ==
    { FenceOpen \o object \o FenceClose,
      <<"\n">> \o FenceOpen \o <<"\n">> \o object \o <<"\n">> \o FenceClose \o <<" ">> }

\* C9: a well-formed object with an integer score and a string feedback gives
\* exactly that score and that feedback, and so does the same object in a json
\* fence, with or without whitespace around it.
C9_WellFormedJson ==
    GotText =>
        \A j \in WellFormedObjects :
            llm.content[1] \in {j.text} \cup Fenced(j.text) =>
                /\ analysis.kind = "return"
                /\ analysis.value = ScoreFeedback(PyInt(j.score), PyStr(j.feedback))

EscapedObject ==
    <<"{">> \o Member(QuotedScore, 0, <<"-", "5">>) \o <<",", " ">>
    \o Member(QuotedFeedback, 0, <<"\"", "a", " ", "\\", "\"", "b", "\\", "\"", " ", "c", "\"">>) \o <<"}">>

\* a fenced object whose feedback has escaped quotes was interpreted
C9_Witness ==
    /\ GotText
    /\ llm.content[1] = FenceOpen \o EscapedObject \o FenceClose
    /\ analysis.value[KeyFeedback].s = <<"a", " ", "\"", "b", "\"", " ", "c">>
    /\ analysis.value[KeyScore].n = 0 - 5

ProseExample ==
    <<"I", " ", "t", "h", "i", "n", "k", " ", "\"", "s", "c", "o", "r", "e", "\"", ":", " ", "4", "2", " ", "a", "n", "d", " ", "\"", "f", "e", "e", "d", "b", "a", "c", "k", "\"", ":", " ", "\"", "N", "e", "e", "d", "s", " ", "w", "o", "r", "k", "\"", " ", "o", "v", "e", "r", "a", "l", "l">>

TwoMatchesExample ==
    <<"\"", "s", "c", "o", "r", "e", "\"", ":", " ", "1", ",", " ", "\"", "s", "c", "o", "r", "e", "\"", ":", " ", "2", ",", " ", "\"", "f", "e", "e", "d", "b", "a", "c", "k", "\"", ":", " ", "\"", "a", "\"", ",", " ", "\"", "f", "e", "e", "d", "b", "a", "c", "k", "\"", ":", " ", "\"", "b", "\"">>

BrokenObjectExample ==
    <<"{", "\"", "s", "c", "o", "r", "e", "\"", " ", ":", " ", "0", "7", " ", "\"", "f", "e", "e", "d", "b", "a", "c", "k", "\"", " ", ":", " ", "\"", "G", "o", "o", "d", " ", "t", "r", "a", "c", "t", "i", "o", "n", "\"", "}">>

\* C10: a response on which the direct parse does not succeed and in which both
\* patterns match gives the integer of the first score match and the string of
\* the first feedback match, in prose and in a brace-delimited text alike; when
\* the direct parse succeeds, the decoded object is the result.
C10_RegexRecovery ==
    GotText =>
        LET t == llm.content[1]
        IN  /\ (Unparseable(t) /\ score_match(t).found /\ feedback_match(t).found) =>
                  analysis.value = ScoreFeedback(PyInt(int(score_match(t).group)),
                                                 PyStr(feedback_match(t).group))
            /\ ~Unparseable(t) => analysis.value = loads(json_match(t)).val
            /\ t = ProseExample =>
                  analysis.value = ScoreFeedback(PyInt(42), PyStr(<<"N", "e", "e", "d", "s", " ", "w", "o", "r", "k">>))
            /\ t = TwoMatchesExample =>
                  analysis.value = ScoreFeedback(PyInt(1), PyStr(<<"a">>))
            /\ t = BrokenObjectExample =>
                  analysis.value = ScoreFeedback(PyInt(7), PyStr(<<"G", "o", "o", "d", " ", "t", "r", "a", "c", "t", "i", "o", "n">>))

\* a brace-delimited text that is not JSON was interpreted by the patterns
C10_Witness ==
    /\ GotText
    /\ llm.content[1] = BrokenObjectExample
    /\ LooksLikeJson(json_match(llm.content[1]))
    /\ Unparseable(llm.content[1])
    /\ analysis.value[KeyScore] = PyInt(7)

\* C11: for a complete report of ten integer scores in 0..100 the dashboard's
\* average is the sum of the ten scores over 10, strengths counts the entries
\* with score >= 80 and weaknesses those with score < 70; an entry in [70, 80)
\* counts toward neither and none toward both, so that the two counts and the
\* entries in between add up to 10; 80 is a strength, 70 is not a weakness
C11_SummaryMetrics ==
    (/\ pc = "idle"
     /\ DOMAIN shown = Components
     /\ \A c \in Components : shown[c][KeyScore].t = "int" /\ shown[c][KeyScore].n \in 0..100)
    => LET score(c) == shown[c][KeyScore].n
           between == { c \in Components : score(c) >= 70 /\ score(c) < 80 }
       IN  /\ metrics.avg_score.num =
                score("overview") + score("key_partners") + score("key_activities")
                + score("key_resources") + score("value_proposition")
                + score("customer_relationships") + score("channels")
                + score("customer_segments") + score("cost_structure")
                + score("revenue_streams")
           /\ metrics.avg_score.den = 10
           /\ metrics.strengths = Cardinality({ c \in Components : score(c) >= 80 })
           /\ metrics.weaknesses = Cardinality({ c \in Components : score(c) < 70 })
           /\ metrics.strengths + metrics.weaknesses <= 10
           /\ metrics.strengths + metrics.weaknesses + Cardinality(between) = 10
           /\ (\A c \in Components : score(c) = 80)
                 => metrics.strengths = 10 /\ metrics.weaknesses = 0
           /\ (\A c \in Components : score(c) = 70)
                 => metrics.strengths = 0 /\ metrics.weaknesses = 0
           /\ shown = ReportOf(ExampleScores)
                 => /\ metrics.avg_score = [num |-> 732, den |-> 10]
                    /\ metrics.strengths = 4
                    /\ metrics.weaknesses = 4

\* the metrics were computed from a report with a score of exactly 80, one of
\* exactly 70 and others on both sides
C11_Witness ==
    /\ pc = "idle"
    /\ DOMAIN shown = Components
    /\ metrics # NoMetrics
    /\ \E c \in Components : shown[c][KeyScore].n = 80
    /\ \E c \in Components : shown[c][KeyScore].n = 70
    /\ metrics.strengths > 1
    /\ metrics.weaknesses > 1

\* C12: a stalled LLM call (one that neither returns nor raises) eventually
\* resolves to the zero-score sentinel result of its component, and the run
\* over the ten components eventually finishes with a complete report stored
C12_StalledCallResolves ==
    /\ (pc = "calling" /\ llm = Stalled)
         ~> (/\ pc # "calling"
             /\ component \in DOMAIN results
             /\ results[component] = ZeroScoreSentinel(component))
    /\ (pc = "analyze") ~> (DOMAIN session_results = Components)

=============================================================================
